---- MODULE Spec2Model ----
(***************************************************************************)
(* Verification model of the casa-pipeline backend core:                   *)
(*   - BackgroundRemovalManager.process_batch / process_image              *)
(*     (backend/app/services/background_removal/manager.py)                *)
(*   - get_model_status and MeshyService.get_status                        *)
(*     (backend/app/api/routes.py, backend/app/services/meshy/meshy.py)    *)
(*   - ConnectionManager and the /ws handler                               *)
(*     (backend/app/websocket_manager.py, backend/app/main.py)             *)
(*   - Metrics, MetricsCollector and the /metrics endpoints                *)
(*     (backend/app/middleware/monitoring.py, backend/app/api/routes.py)   *)
(* Every await of the code is a scheduling point: an action runs from one  *)
(* await to the next.                                                      *)
(***************************************************************************)
EXTENDS Integers, Sequences, FiniteSets, TLC

\* ------------------------------------------------------------------------
\* Bounds of the model
\* ------------------------------------------------------------------------
MaxImages == 3
MaxConcurrent == 2
MaxChecks == 3
MaxFrames == 3
MaxPublishes == 2
MaxMetricsOps == 3
MaxHealthRequests == 20
WindowRoom == 2
MaxAttempts == 3
MaxRequestImages == 4

\* ------------------------------------------------------------------------
\* State
\* ------------------------------------------------------------------------
VARIABLES
    \* process_batch
    image_urls,         \* argument: the list of image URLs
    max_concurrent,     \* argument: the concurrency ceiling
    provider_available, \* whether _get_available_provider() finds a provider
    sem_value,          \* asyncio.Semaphore._value
    upc,                \* position of each unit coroutine
    task_result,        \* what each unit coroutine returned or raised
    provider_calls,     \* number of provider.remove_background invocations
    completion_order,   \* the unit indices in the order the units finished
    batch_pc,           \* position of process_batch itself
    processed_results,  \* the list process_batch returns
    \* get_model_status
    model_3d,           \* the stored Model3D row of the task, or NoRecord
    stage,              \* the stored ProcessingStage '3d_generation' row
    poll_events,        \* product updates get_model_status has published
    checks,             \* number of get_model_status calls made so far
    last_check,         \* the last call: what the source did, what was returned
    \* ConnectionManager and the /ws handlers
    active_connections, \* ConnectionManager.active_connections (a list)
    subscriptions,      \* ConnectionManager.subscriptions (a dict of lists)
    alive,              \* per websocket: the peer is there, send_text succeeds
    handler,            \* per websocket: position of its websocket_endpoint
    pub,                \* per publishing coroutine: position in send_*_update
    frames_read,        \* number of inbound frames the handlers have read
    publishes,          \* number of publishes started
    \* MetricsCollector and the /metrics endpoints
    metrics,            \* MetricsCollector._metrics (the Metrics object)
    metrics_ops,        \* number of record_*, GET /metrics and reset calls
    reset_response,     \* what the last GET /metrics/reset answered
    summary,            \* what the last GET /metrics returned
    \* MeshyService.wait_for_completion
    wait_args,          \* arguments: max_attempts and delay_seconds
    wait_pc,            \* position of wait_for_completion
    attempt,            \* the loop variable of its for loop
    wait_sleeps,        \* number of time.sleep calls it has made
    wait_history,       \* what each get_task_status call produced, in order
    wait_result,        \* what it returned or raised
    \* remove_backgrounds
    rb_request,         \* the request: number of image URLs, and whether
                        \* processed images of the product are already stored
    rb_pc,              \* position of remove_backgrounds
    rb_i,               \* the loop index over request.image_urls
    rb_successful,      \* successful_count
    rb_processed,       \* processed_images: one entry per image handled
    rb_events,          \* the product updates it has published, in order
    \* history of the ConnectionManager's callers
    subscribe_calls,    \* the subscribe_to_product / subscribe_to_batch calls
                        \* made so far: which connection, which method, which id
    publish_kind        \* which send_*_update each publisher is running

batchVars == <<image_urls, max_concurrent, provider_available, sem_value, upc,
               task_result, provider_calls, completion_order, batch_pc,
               processed_results>>

pollVars == <<model_3d, stage, poll_events, checks, last_check>>

wsVars == <<active_connections, subscriptions, alive, handler, pub,
            frames_read, publishes>>

metricsVars == <<metrics, metrics_ops, reset_response, summary>>

waitVars == <<wait_args, wait_pc, attempt, wait_sleeps, wait_history, wait_result>>

removeVars == <<rb_request, rb_pc, rb_i, rb_successful, rb_processed, rb_events>>

historyVars == <<subscribe_calls, publish_kind>>

vars == <<batchVars, pollVars, wsVars, metricsVars, waitVars, removeVars, historyVars>>

\* ------------------------------------------------------------------------
\* process_batch / process_image
\* ------------------------------------------------------------------------
Urls == {"u1", "u2"}

Units == 1..Len(image_urls)

NoResult == [kind |-> "none"]

\* The failure dict process_image and process_batch build.
FailureResult(url, error, provider) ==
    [kind |-> "dict", success |-> FALSE, error |-> error, original_url |-> url,
     processed_url |-> "None", provider |-> provider]

\* The dict process_image returns after a successful provider call.
SuccessResult(url, res) ==
    [kind |-> "dict", success |-> TRUE, original_url |-> url,
     processed_url |-> "processed", provider |-> "provider",
     processing_time |-> res.processing_time, cost |-> res.cost]

SkipResultCosted(url) ==
    [kind |-> "dict", success |-> TRUE, original_url |-> url,
     processed_url |-> "original", provider |-> "skip",
     processing_time |-> 1, cost |-> 1, skipped |-> TRUE]

\* _create_skip_result: already transparent, the provider is not used.
SkipResult(url) ==
    [kind |-> "dict", success |-> TRUE, original_url |-> url,
     processed_url |-> "original", provider |-> "skip",
     processing_time |-> 0, cost |-> 0, skipped |-> TRUE]

\* An exception that left process_with_semaphore (gather keeps it as a value).
RaisedResult(msg) == [kind |-> "exception", msg |-> msg]

\* What provider.remove_background can do: return a success dict with the
\* provider's cost and elapsed time, return a failure dict, or raise.
ProviderOutcomes ==
    {[kind |-> "ok", cost |-> 1, processing_time |-> 1, save_raises |-> s] :
        s \in BOOLEAN}
    \cup {[kind |-> "fail", error |-> "provider_error"],
          [kind |-> "raise", error |-> "str(e)"]}

\* asyncio.Semaphore(max_concurrent)
SemaphoreInit(k) == k

CanAcquireUnbounded == TRUE

\* async with semaphore: a unit enters only while a slot is free.
CanAcquire == sem_value > 0

\* Units that are inside process_image (download, skip copy or provider call).
InProcessImage == {i \in Units : upc[i] \in {"downloading", "skip_saving", "removing"}}

\* Units that hold a slot of the semaphore.
HoldingSlot == {i \in Units : upc[i] \in {"sleeping", "downloading", "skip_saving", "removing"}}

BatchInit ==
    /\ image_urls \in UNION {[1..n -> Urls] : n \in 0..MaxImages}
    /\ max_concurrent \in 0..MaxConcurrent
    /\ provider_available \in BOOLEAN
    /\ sem_value = SemaphoreInit(max_concurrent)
    /\ upc = [i \in 1..Len(image_urls) |-> "pending"]
    /\ task_result = [i \in 1..Len(image_urls) |-> NoResult]
    /\ provider_calls = 0
    /\ completion_order = <<>>
    /\ batch_pc = "gathering"
    /\ processed_results = <<>>

\* A unit that leaves with its result and keeps its slot.
FinishKeepsSlot(i, result) ==
    /\ upc' = [upc EXCEPT ![i] = "done"]
    /\ task_result' = [task_result EXCEPT ![i] = result]
    /\ UNCHANGED sem_value
    /\ completion_order' = Append(completion_order, i)

\* The unit leaves `async with semaphore` with a result or an exception:
\* the slot is released and the task is done.
Finish(i, result) ==
    /\ upc' = [upc EXCEPT ![i] = "done"]
    /\ task_result' = [task_result EXCEPT ![i] = result]
    /\ sem_value' = sem_value + 1
    /\ completion_order' = Append(completion_order, i)

\* process_with_semaphore: acquire a slot; the first unit goes straight into
\* process_image, the others sleep 0.5 s first.
Acquire(i) ==
    /\ batch_pc = "gathering"
    /\ upc[i] = "pending"
    /\ CanAcquire
    /\ IF i > 1
       THEN /\ upc' = [upc EXCEPT ![i] = "sleeping"]
            /\ sem_value' = sem_value - 1
            /\ UNCHANGED <<task_result, completion_order>>
       ELSE \E raises \in BOOLEAN :
              IF raises
              THEN /\ upc' = [upc EXCEPT ![i] = "done"]
                   /\ task_result' = [task_result EXCEPT ![i] = RaisedResult("str(e)")]
                   /\ completion_order' = Append(completion_order, i)
                   /\ UNCHANGED sem_value
              ELSE /\ upc' = [upc EXCEPT ![i] = "downloading"]
                   /\ sem_value' = sem_value - 1
                   /\ UNCHANGED <<task_result, completion_order>>
    /\ UNCHANGED <<image_urls, max_concurrent, provider_available,
                   provider_calls, batch_pc, processed_results>>
    /\ UNCHANGED <<pollVars, wsVars, metricsVars, waitVars, removeVars, historyVars>>

\* asyncio.sleep(0.5) returns and the unit calls process_image.
WakeUp(i) ==
    /\ upc[i] = "sleeping"
    /\ \E raises \in BOOLEAN :
         IF raises
         THEN Finish(i, RaisedResult("str(e)"))
         ELSE /\ upc' = [upc EXCEPT ![i] = "downloading"]
              /\ UNCHANGED <<task_result, completion_order, sem_value>>
    /\ UNCHANGED <<image_urls, max_concurrent, provider_available,
                   provider_calls, batch_pc, processed_results>>
    /\ UNCHANGED <<pollVars, wsVars, metricsVars, waitVars, removeVars, historyVars>>

\* _download_image returns: None (any HTTP or network failure), or the bytes
\* of an image that is or is not already transparent.
Download(i) ==
    /\ upc[i] = "downloading"
    /\ \E got \in {"none", "transparent", "opaque"} :
         CASE got = "none" ->
                /\ Finish(i, FailureResult(image_urls[i], "Failed to download image", "none"))
                /\ UNCHANGED provider_calls
           [] got = "transparent" ->
                /\ upc' = [upc EXCEPT ![i] = "skip_saving"]
                /\ UNCHANGED <<task_result, completion_order, sem_value, provider_calls>>
           [] got = "opaque" ->
                IF ~provider_available
                THEN /\ Finish(i, FailureResult(image_urls[i],
                                   "No background removal providers available", "none"))
                     /\ UNCHANGED provider_calls
                ELSE /\ upc' = [upc EXCEPT ![i] = "removing"]
                     /\ provider_calls' = provider_calls + 1
                     /\ UNCHANGED <<task_result, completion_order, sem_value>>
    /\ UNCHANGED <<image_urls, max_concurrent, provider_available,
                   batch_pc, processed_results>>
    /\ UNCHANGED <<pollVars, wsVars, metricsVars, waitVars, removeVars, historyVars>>

\* _create_skip_result: the second download returns (its failure is only
\* logged) and the skip result is built.
SkipSave(i) ==
    /\ upc[i] = "skip_saving"
    /\ Finish(i, SkipResult(image_urls[i]))
    /\ UNCHANGED <<image_urls, max_concurrent, provider_available,
                   provider_calls, batch_pc, processed_results>>
    /\ UNCHANGED <<pollVars, wsVars, metricsVars, waitVars, removeVars, historyVars>>

\* What process_image returns once provider.remove_background has answered.
AfterProvider(url, res) ==
    CASE res.kind = "raise" -> FailureResult(url, res.error, "none")
      [] res.kind = "fail"  -> FailureResult(url, res.error, "provider")
      [] res.kind = "ok"    -> IF res.save_raises
                               THEN FailureResult(url, "str(e)", "none")
                               ELSE SuccessResult(url, res)

\* provider.remove_background returns or raises.
RemoveBackground(i) ==
    /\ upc[i] = "removing"
    /\ \E res \in ProviderOutcomes : Finish(i, AfterProvider(image_urls[i], res))
    /\ UNCHANGED <<image_urls, max_concurrent, provider_available,
                   provider_calls, batch_pc, processed_results>>
    /\ UNCHANGED <<pollVars, wsVars, metricsVars, waitVars, removeVars, historyVars>>

RECURSIVE InCompletionOrder(_)
InCompletionOrder(k) ==
    IF k = 0 THEN <<>>
    ELSE Append(InCompletionOrder(k - 1), task_result[completion_order[k]])

\* The results as they would come back in completion order.
GatherAsCompleted == InCompletionOrder(Len(completion_order))

\* asyncio.gather(*tasks, return_exceptions=True): one value per task, in the
\* order of the tasks.
GatherResults == [i \in 1..Len(image_urls) |-> task_result[i]]

HandleExceptionsOmitted(results) == results

\* The loop that replaces exceptions by failure dicts.
HandleExceptions(results) ==
    [i \in 1..Len(results) |->
        IF results[i].kind = "exception"
        THEN FailureResult(image_urls[i], results[i].msg, "none")
        ELSE results[i]]

\* The batch summary reads r.get("success") of every entry: an entry that is
\* not a dict makes process_batch raise.
SummaryRaises(processed) == \E i \in 1..Len(processed) : processed[i].kind # "dict"

\* gather returns once every task is done, and process_batch returns.
Gather ==
    /\ batch_pc = "gathering"
    /\ \A i \in Units : upc[i] = "done"
    /\ processed_results' = HandleExceptions(GatherResults)
    /\ batch_pc' = IF SummaryRaises(processed_results') THEN "raised" ELSE "returned"
    /\ UNCHANGED <<image_urls, max_concurrent, provider_available, sem_value,
                   upc, task_result, provider_calls, completion_order>>
    /\ UNCHANGED <<pollVars, wsVars, metricsVars, waitVars, removeVars, historyVars>>

NextBatch ==
    \/ \E i \in Units : Acquire(i)
    \/ \E i \in Units : WakeUp(i)
    \/ \E i \in Units : Download(i)
    \/ \E i \in Units : SkipSave(i)
    \/ \E i \in Units : RemoveBackground(i)
    \/ Gather

\* No batch is running.
BatchIdle ==
    /\ image_urls = <<>>
    /\ max_concurrent = 0
    /\ provider_available = FALSE
    /\ sem_value = 0
    /\ upc = <<>>
    /\ task_result = <<>>
    /\ provider_calls = 0
    /\ completion_order = <<>>
    /\ batch_pc = "returned"
    /\ processed_results = <<>>

\* ------------------------------------------------------------------------
\* MeshyService.get_status and get_model_status
\* ------------------------------------------------------------------------
NoRecord == [exists |-> FALSE]

VendorStatuses == {"PENDING", "IN_PROGRESS", "SUCCEEDED", "FAILED", "CANCELED", "missing"}

\* What the HTTP request of get_status can do: answer 200 with a vendor
\* payload, answer another status code, or raise.
HttpOutcomes ==
    {[kind |-> "ok", status |-> st, progress |-> pr] :
        st \in VendorStatuses, pr \in {0, 50}}
    \cup {[kind |-> "http_error"], [kind |-> "raise"]}

\* MeshyService.get_status: the payload of a 200 answer as it is, and a
\* payload with status FAILED for any other answer and for an exception.
GetStatus(http) ==
    CASE http.kind = "ok"         -> [status |-> http.status, progress |-> http.progress,
                                      model_url |-> "glb", error |-> "None"]
      [] http.kind = "http_error" -> [status |-> "FAILED", progress |-> 0,
                                      model_url |-> "None", error |-> "response.text"]
      [] http.kind = "raise"      -> [status |-> "FAILED", progress |-> 0,
                                      model_url |-> "None", error |-> "str(e)"]

\* status_data.get("status", "PENDING")
MeshyStatus(status_data) ==
    IF status_data.status = "missing" THEN "PENDING" ELSE status_data.status

Max(a, b) == IF a >= b THEN a ELSE b

\* "Ensure progress shows something even if 0"
FloorProgress == 10

\* The mapping of the vendor status onto the status and progress returned.
MapStatus(status_data) ==
    LET meshy_status == MeshyStatus(status_data) IN
    CASE meshy_status = "SUCCEEDED" -> [status |-> "completed", progress |-> 100]
      [] meshy_status = "FAILED"    -> [status |-> "failed", progress |-> 0]
      [] meshy_status \in {"PENDING", "IN_PROGRESS"} ->
            [status |-> "processing", progress |-> Max(status_data.progress, FloorProgress)]
      [] OTHER -> [status |-> "processing", progress |-> status_data.progress]

\* status_data.get("message", "Generation failed"): none of the payloads of
\* GetStatus carries a "message" key.
StatusMessage(status_data) == "Generation failed"

\* The guards of the two database updates.
CompletesNow(meshy_status, row) == meshy_status = "SUCCEEDED" /\ row.status # "completed"

FailsNow(meshy_status, row) == meshy_status = "FAILED" /\ row.status # "failed"

\* generate_3d has stored the task as processing, or the task id is unknown.
PollInit ==
    /\ model_3d \in {NoRecord,
                     [exists |-> TRUE, status |-> "processing", model_url |-> "None",
                      error_message |-> "None"]}
    /\ stage = [status |-> "processing", model_url |-> "None"]
    /\ poll_events = <<>>
    /\ checks = 0
    /\ last_check = [source |-> "none"]

PollIdle ==
    /\ model_3d = NoRecord
    /\ stage = [status |-> "processing", model_url |-> "None"]
    /\ poll_events = <<>>
    /\ checks = 0
    /\ last_check = [source |-> "none"]

\* One call of get_model_status, the status source doing `http`.
CheckStatus(http) ==
    LET status_data  == GetStatus(http)
        meshy_status == MeshyStatus(status_data)
        mapped       == MapStatus(status_data)
    IN
    /\ checks < MaxChecks
    /\ checks' = checks + 1
    /\ IF model_3d.exists /\ CompletesNow(meshy_status, model_3d)
       THEN /\ model_3d' = [model_3d EXCEPT !.status = "completed",
                                            !.model_url = status_data.model_url]
            /\ stage' = [status |-> "completed", model_url |-> status_data.model_url]
            /\ poll_events' = Append(poll_events,
                    [stage |-> "3d_generation", status |-> "completed",
                     message |-> "3D model completed!"])
       ELSE IF model_3d.exists /\ FailsNow(meshy_status, model_3d)
       THEN /\ model_3d' = [model_3d EXCEPT !.status = "failed",
                                            !.error_message = StatusMessage(status_data)]
            /\ UNCHANGED <<stage, poll_events>>
       ELSE UNCHANGED <<model_3d, stage, poll_events>>
    /\ last_check' = [source |-> http.kind, meshy_status |-> meshy_status,
                      status |-> mapped.status, progress |-> mapped.progress,
                      called_source |-> TRUE]
    /\ UNCHANGED <<batchVars, wsVars, metricsVars, waitVars, removeVars, historyVars>>

NextPoller == \E http \in HttpOutcomes : CheckStatus(http)



\* ------------------------------------------------------------------------
\* ConnectionManager and websocket_endpoint
\* ------------------------------------------------------------------------
Conns == {"w1", "w2"}

Entities == {"e1", "e2"}

Publishers == {"p1"}

PublishKinds == {"product_update", "batch_update", "error"}

Range(seq) == {seq[i] : i \in 1..Len(seq)}

\* list.remove(x): the first occurrence of x is taken out.
RemoveFirst(seq, x) ==
    IF x \notin Range(seq) THEN seq
    ELSE LET i == CHOOSE j \in 1..Len(seq) :
                    seq[j] = x /\ \A h \in 1..(j - 1) : seq[h] # x
         IN SubSeq(seq, 1, i - 1) \o SubSeq(seq, i + 1, Len(seq))

\* The keys disconnect deletes: those whose list held only the websocket.
PrunedKeys(subs, ws) ==
    {k \in DOMAIN subs : ws \in Range(subs[k]) /\ Len(RemoveFirst(subs[k], ws)) = 0}

DisconnectKeepsEmpty(subs, ws) ==
    [k \in DOMAIN subs |-> RemoveFirst(subs[k], ws)]

\* disconnect, on the subscriptions: the websocket leaves every list, and a
\* list it leaves empty is deleted with its key.
DisconnectSubs(subs, ws) ==
    [k \in DOMAIN subs \ PrunedKeys(subs, ws) |-> RemoveFirst(subs[k], ws)]

\* disconnect, on active_connections.
DisconnectActive(ac, ws) == RemoveFirst(ac, ws)

\* disconnect, seen from the publishing coroutines: a loop over a list that
\* disconnect deleted from the dict goes on over that (now empty) list object,
\* whatever is subscribed under the key afterwards.
DisconnectPubs(pubs, subs, ws) ==
    [p \in DOMAIN pubs |->
        IF pubs[p].pc = "sending"
        THEN [pubs[p] EXCEPT
                !.attached = @ /\ pubs[p].entity \notin PrunedKeys(subs, ws),
                !.owed = @ \ {ws}]
        ELSE pubs[p]]

\* ConnectionManager.disconnect(websocket) on the whole manager state.
Disconnect(st, ws) ==
    [ac   |-> DisconnectActive(st.ac, ws),
     subs |-> DisconnectSubs(st.subs, ws),
     pubs |-> DisconnectPubs(st.pubs, st.subs, ws)]

\* "for connection in dead_connections: self.disconnect(connection)"
RECURSIVE DisconnectAll(_, _)
DisconnectAll(st, dead) ==
    IF dead = <<>> THEN st
    ELSE DisconnectAll(Disconnect(st, Head(dead)), Tail(dead))

ManagerState == [ac |-> active_connections, subs |-> subscriptions, pubs |-> pub]

SetManagerState(st) ==
    /\ active_connections' = st.ac
    /\ subscriptions' = st.subs
    /\ pub' = st.pubs

SubscribeAlways(subs, ws, id) ==
    IF id \in DOMAIN subs
    THEN [subs EXCEPT ![id] = Append(@, ws)]
    ELSE [k \in DOMAIN subs \cup {id} |-> IF k = id THEN <<ws>> ELSE subs[k]]

\* subscribe_to_product / subscribe_to_batch: the two have the same body and
\* share the subscriptions dict.
Subscribe(subs, ws, id) ==
    IF id \in DOMAIN subs
    THEN IF ws \in Range(subs[id]) THEN subs ELSE [subs EXCEPT ![id] = Append(@, ws)]
    ELSE [k \in DOMAIN subs \cup {id} |-> IF k = id THEN <<ws>> ELSE subs[k]]

\* A publisher between two publishes: whether a publish has returned, and of
\* that publish the entity, the connections whose send_text raised, the live
\* subscribers it never tried and the connections it delivered to twice.
IdlePub == [pc |-> "idle", returned |-> FALSE, entity |-> "none",
            failed |-> {}, missed |-> {}, twice |-> {}]

EmptyPublishRaises(e) ==
    [pc |-> "idle", returned |-> FALSE, entity |-> e,
     failed |-> {}, missed |-> {}, twice |-> {}]

\* A publish to a key that is not in the subscriptions dict: the `if` is
\* false and the function returns.
EmptyPublish(e) ==
    [pc |-> "idle", returned |-> TRUE, entity |-> e,
     failed |-> {}, missed |-> {}, twice |-> {}]

\* ConnectionManager() and no connection accepted yet.
WsInit ==
    /\ active_connections = <<>>
    /\ subscriptions = <<>>
    /\ alive = [c \in Conns |-> TRUE]
    /\ handler = [c \in Conns |-> [pc |-> "new", reply |-> "none"]]
    /\ pub = [p \in Publishers |-> IdlePub]
    /\ frames_read = 0
    /\ publishes = 0

WsIdle ==
    /\ active_connections = <<>>
    /\ subscriptions = <<>>
    /\ alive = <<>>
    /\ handler = <<>>
    /\ pub = <<>>
    /\ frames_read = 0
    /\ publishes = 0

\* websocket_endpoint starts: manager.connect accepts and registers.
Connect(c) ==
    /\ handler[c].pc = "new"
    /\ alive[c]
    /\ active_connections' = Append(active_connections, c)
    /\ handler' = [handler EXCEPT ![c].pc = "receiving"]
    /\ UNCHANGED <<subscriptions, alive, pub, frames_read, publishes, batchVars, pollVars, metricsVars, waitVars, removeVars, historyVars>>

\* The peer goes away: from now on send_text on the websocket raises, and
\* receive_text raises WebSocketDisconnect once the buffered frames are read.
ClientDrop(c) ==
    /\ handler[c].pc # "new"
    /\ alive[c]
    /\ alive' = [alive EXCEPT ![c] = FALSE]
    /\ UNCHANGED <<active_connections, subscriptions, handler, pub, frames_read,
                   publishes, batchVars, pollVars, metricsVars, waitVars, removeVars, historyVars>>

\* The inbound frames the handler distinguishes.
Frames ==
    {[type |-> t, id |-> e] : t \in {"subscribe_product", "subscribe_batch"}, e \in Entities}
    \cup {[type |-> t, id |-> "None"] :
            t \in {"subscribe_product", "subscribe_batch", "ping", "unknown",
                   "not_json", "not_an_object"}}

ReplyForEchoes(frame) == "echo"

\* The reply the handler sends for a frame ("none": no reply at all).
ReplyFor(frame) ==
    CASE frame.type \in {"subscribe_product", "subscribe_batch"} ->
            IF frame.id = "None" THEN "none" ELSE "subscription_confirmed"
      [] frame.type = "ping"     -> "pong"
      [] frame.type = "not_json" -> "error"
      [] OTHER                   -> "echo"

\* receive_text returns a frame (one sent by a live peer, or one still
\* buffered after the peer went away) and the handler acts on it up to its
\* send_personal_message.
HandleFrame(c, frame) ==
    /\ handler[c].pc = "receiving"
    /\ frames_read < MaxFrames
    /\ frames_read' = frames_read + 1
    /\ IF frame.type = "not_an_object"
       THEN \* message.get raises AttributeError, which ends the handler
            \* without manager.disconnect; the server closes the socket, so
            \* that a later send_text on it raises
            /\ handler' = [handler EXCEPT ![c].pc = "ended"]
            /\ alive' = [alive EXCEPT ![c] = FALSE]
            /\ UNCHANGED subscriptions
       ELSE /\ UNCHANGED alive
            /\ subscriptions' =
                  IF frame.type \in {"subscribe_product", "subscribe_batch"}
                     /\ frame.id # "None"
                  THEN Subscribe(subscriptions, c, frame.id)
                  ELSE subscriptions
            /\ handler' = IF ReplyFor(frame) = "none" THEN handler
                          ELSE [handler EXCEPT ![c] = [pc |-> "replying",
                                                       reply |-> ReplyFor(frame)]]
    /\ UNCHANGED <<active_connections, pub, publishes, batchVars, pollVars, metricsVars, waitVars, removeVars>>

Receive(c, frame) == HandleFrame(c, frame) /\ UNCHANGED historyVars

\* manager.subscribe_to_product(websocket, product_id) for a subscribe_product
\* frame, manager.subscribe_to_batch(websocket, batch_id) for a
\* subscribe_batch frame, no call for any other frame.
SubscribeCalls(c, frame) ==
    IF frame.type \in {"subscribe_product", "subscribe_batch"} /\ frame.id # "None"
    THEN {[conn |-> c,
           method |-> IF frame.type = "subscribe_product" THEN "subscribe_to_product"
                      ELSE "subscribe_to_batch",
           id |-> frame.id]}
    ELSE {}

\* Receive, with the subscribe call it makes written down.
ReceiveRecorded(c, frame) ==
    /\ HandleFrame(c, frame)
    /\ subscribe_calls' =
          IF frame.type = "not_an_object" THEN subscribe_calls
          ELSE subscribe_calls \cup SubscribeCalls(c, frame)
    /\ UNCHANGED publish_kind

\* send_personal_message: send_text returns, or raises and the websocket is
\* disconnected; either way the handler goes back to receive_text.
Reply(c) ==
    /\ handler[c].pc = "replying"
    /\ handler' = [handler EXCEPT ![c] = [pc |-> "receiving", reply |-> "none"]]
    /\ IF alive[c]
       THEN UNCHANGED <<active_connections, subscriptions, pub>>
       ELSE SetManagerState(Disconnect(ManagerState, c))
    /\ UNCHANGED <<alive, frames_read, publishes, batchVars, pollVars, metricsVars, waitVars, removeVars, historyVars>>

\* receive_text raises WebSocketDisconnect: manager.disconnect, handler ends.
ReceiveDisconnect(c) ==
    /\ handler[c].pc = "receiving"
    /\ ~alive[c]
    /\ handler' = [handler EXCEPT ![c].pc = "ended"]
    /\ SetManagerState(Disconnect(ManagerState, c))
    /\ UNCHANGED <<alive, frames_read, publishes, batchVars, pollVars, metricsVars, waitVars, removeVars, historyVars>>

\* send_product_update / send_batch_update / send_error_update up to the first
\* send_text: nothing happens without subscribers, else the loop starts.
\*   owed:   the subscribers of e at the start that have stayed subscribed and
\*           live since and have not been tried yet
\*   banned: the connections whose send_text raised in this publisher's
\*           previous publish to e
\*   got:    the connections whose send_text of this publish has returned
\*   twice:  the connections whose send_text of this publish returned twice
EnterPublish(p, e, kind) ==
    /\ pub[p].pc = "idle"
    /\ publishes < MaxPublishes
    /\ publishes' = publishes + 1
    /\ IF e \notin DOMAIN subscriptions
       THEN pub' = [pub EXCEPT ![p] = EmptyPublish(e)]
       ELSE pub' = [pub EXCEPT ![p] =
                [pc |-> "sending", entity |-> e, attached |-> TRUE,
                 idx |-> 1, target |-> subscriptions[e][1], dead |-> <<>>,
                 owed |-> {c \in Range(subscriptions[e]) :
                              alive[c] /\ c \in Range(active_connections)}
                          \ {subscriptions[e][1]},
                 banned |-> IF pub[p].returned /\ pub[p].entity = e
                            THEN pub[p].failed ELSE {},
                 got |-> {}, twice |-> {}]]
    /\ UNCHANGED <<active_connections, subscriptions, alive, handler, frames_read,
                   batchVars, pollVars, metricsVars, waitVars, removeVars>>

PublishStart(p, e, kind) == EnterPublish(p, e, kind) /\ UNCHANGED historyVars

\* PublishStart, with the method that is running written down.
PublishStartRecorded(p, e, kind) ==
    /\ EnterPublish(p, e, kind)
    /\ publish_kind' = [publish_kind EXCEPT ![p] = kind]
    /\ UNCHANGED subscribe_calls

\* The list a publishing loop iterates: the one under its key, unless that
\* list was deleted from the dict while the loop was suspended.
IteratedList(q) == IF q.attached THEN subscriptions[q.entity] ELSE <<>>

\* The state of a publisher whose send_text has just returned or raised.
AfterSend(q) ==
    [q EXCEPT !.dead = IF alive[q.target] THEN @ ELSE Append(@, q.target),
              !.owed = {c \in @ : alive[c]},
              !.got = IF alive[q.target] THEN @ \cup {q.target} ELSE @,
              !.twice = IF alive[q.target] /\ q.target \in q.got
                        THEN @ \cup {q.target} ELSE @]

\* The list iterator is exhausted.
LoopEnds(q) == q.idx >= Len(IteratedList(q))

\* One send_text of a publish completes; the loop goes on to the next
\* subscriber, or ends and the dead connections are disconnected.
PublishSend(p) ==
    /\ pub[p].pc = "sending"
    /\ LET q == AfterSend(pub[p]) IN
       IF ~LoopEnds(q)
       THEN /\ pub' = [pub EXCEPT ![p] =
                    [q EXCEPT !.idx = @ + 1,
                              !.target = IteratedList(q)[q.idx + 1],
                              !.owed = @ \ {IteratedList(q)[q.idx + 1]}]]
            /\ UNCHANGED <<active_connections, subscriptions>>
       ELSE LET st == DisconnectAll(
                        [ac |-> active_connections, subs |-> subscriptions,
                         pubs |-> [pub EXCEPT ![p] =
                            [pc |-> "idle", returned |-> TRUE, entity |-> q.entity,
                             failed |-> Range(q.dead), missed |-> q.owed,
                             twice |-> q.twice]]],
                        q.dead)
            IN SetManagerState(st)
    /\ UNCHANGED <<alive, handler, frames_read, publishes, batchVars, pollVars, metricsVars, waitVars, removeVars, historyVars>>

NextWS ==
    \/ \E c \in Conns : Connect(c)
    \/ \E c \in Conns : ClientDrop(c)
    \/ \E c \in Conns, f \in Frames : Receive(c, f)
    \/ \E c \in Conns : Reply(c)
    \/ \E c \in Conns : ReceiveDisconnect(c)
    \/ \E p \in Publishers, e \in Entities, k \in PublishKinds : PublishStart(p, e, k)
    \/ \E p \in Publishers : PublishSend(p)

\* The ConnectionManager with the history of its callers.
NextKinds ==
    \/ \E c \in Conns : Connect(c)
    \/ \E c \in Conns : ClientDrop(c)
    \/ \E c \in Conns, f \in Frames : ReceiveRecorded(c, f)
    \/ \E c \in Conns : Reply(c)
    \/ \E c \in Conns : ReceiveDisconnect(c)
    \/ \E p \in Publishers, e \in Entities, k \in PublishKinds :
          PublishStartRecorded(p, e, k)
    \/ \E p \in Publishers : PublishSend(p)

\* No call has been written down.
NoHistory ==
    /\ subscribe_calls = {}
    /\ publish_kind = [p \in Publishers |-> "none"]

\* ------------------------------------------------------------------------
\* Metrics, MetricsCollector and the /metrics endpoints
\* ------------------------------------------------------------------------
\* deque(maxlen=1000)
RequestTimesMaxLen == 1000

\* update_response_time computes the percentiles from this length on.
PercentileMinLen == 10

\* get_health_status: error rates (in percent) below which the status is
\* 'healthy' and 'degraded'.
HealthyBelow == 10

DegradedBelow == 25

\* The stages that have a <stage>_requests counter.
StageNames == {"scraping", "image_selection", "background_removal", "image_approval",
               "model_generation", "model_optimization", "product_save"}

\* Metrics(): every field at its default.
InitialMetrics ==
    [total_requests |-> 0, successful_requests |-> 0, failed_requests |-> 0,
     request_times |-> <<>>,
     products_processed |-> 0, products_successful |-> 0, products_failed |-> 0,
     batches_processed |-> 0, batches_successful |-> 0, batches_failed |-> 0,
     stage_requests |-> [s \in StageNames |-> 0],
     error_counts |-> <<>>,
     websocket_connections |-> 0, websocket_messages_sent |-> 0,
     websocket_subscriptions |-> 0,
     total_cost |-> 0, cost_by_stage |-> <<>>,
     average_response_time |-> [sum |-> 0, len |-> 1],
     p95_response_time |-> 0, p99_response_time |-> 0]

\* d.get(key, 0)
DictGet(d, key) == IF key \in DOMAIN d THEN d[key] ELSE 0

\* d[key] = value
DictSet(d, key, value) ==
    [k \in DOMAIN d \cup {key} |-> IF k = key THEN value ELSE d[k]]

DequeAppendUnbounded(dq, x) == Append(dq, x)

\* deque.append with maxlen: the oldest element leaves a full window.
DequeAppend(dq, x) ==
    IF Len(dq) >= RequestTimesMaxLen THEN Append(Tail(dq), x) ELSE Append(dq, x)

RECURSIVE SeqSum(_)
SeqSum(seq) ==
    IF Len(seq) = 0 THEN 0
    ELSE IF Len(seq) = 1 THEN seq[1]
    ELSE LET half == Len(seq) \div 2 IN
         SeqSum(SubSeq(seq, 1, half)) + SeqSum(SubSeq(seq, half + 1, Len(seq)))

\* sorted(request_times)[int(len * q / 100)], positions counted from 1 here.
Percentile(times, q) ==
    SortSeq(times, LAMBDA a, b : a < b)[((Len(times) * q) \div 100) + 1]

\* Metrics.update_response_time; the average is kept as the exact quotient
\* sum / len.
UpdateResponseTime(m, response_time) ==
    LET times == DequeAppend(m.request_times, response_time) IN
    [m EXCEPT !.request_times = times,
              !.average_response_time = [sum |-> SeqSum(times), len |-> Len(times)],
              !.p95_response_time =
                    IF Len(times) >= PercentileMinLen THEN Percentile(times, 95) ELSE @,
              !.p99_response_time =
                    IF Len(times) >= PercentileMinLen THEN Percentile(times, 99) ELSE @]

\* Metrics.record_error
RecordError(m, error_type) ==
    [m EXCEPT !.error_counts = DictSet(@, error_type, DictGet(@, error_type) + 1)]

\* Metrics.record_cost
RecordCost(m, stage_name, cost) ==
    [m EXCEPT !.total_cost = @ + cost,
              !.cost_by_stage = DictSet(@, stage_name, DictGet(@, stage_name) + cost)]

\* f"HTTP_{status_code}"
HttpErrorType(status_code) ==
    CASE status_code = 400 -> "HTTP_400"
      [] status_code = 404 -> "HTTP_404"
      [] status_code = 500 -> "HTTP_500"
      [] OTHER -> "HTTP_other"

\* f"PIPELINE_{stage.upper()}"
PipelineErrorType(stage_name) ==
    CASE stage_name = "scraping" -> "PIPELINE_SCRAPING"
      [] OTHER -> "PIPELINE_OTHER"

\* record_request with a failed request left out of failed_requests.
RecordRequestUncountedFailure(m, status_code, response_time) ==
    LET counted == [m EXCEPT !.total_requests = @ + 1]
        sorted  == IF 200 <= status_code /\ status_code < 400
                   THEN [counted EXCEPT !.successful_requests = @ + 1]
                   ELSE RecordError(counted, HttpErrorType(status_code))
    IN UpdateResponseTime(sorted, response_time)

\* MetricsCollector.record_request on the metrics object m.
RecordRequestOn(m, status_code, response_time) ==
    LET counted == [m EXCEPT !.total_requests = @ + 1]
        sorted  == IF 200 <= status_code /\ status_code < 400
                   THEN [counted EXCEPT !.successful_requests = @ + 1]
                   ELSE RecordError([counted EXCEPT !.failed_requests = @ + 1],
                                    HttpErrorType(status_code))
    IN UpdateResponseTime(sorted, response_time)

\* MetricsCollector.record_pipeline_stage on the metrics object m.
RecordPipelineStageOn(m, stage_name, success, cost) ==
    LET staged  == IF stage_name \in StageNames
                   THEN [m EXCEPT !.stage_requests[stage_name] = @ + 1]
                   ELSE m
        outcome == IF success
                   THEN [staged EXCEPT !.products_successful = @ + 1]
                   ELSE RecordError([staged EXCEPT !.products_failed = @ + 1],
                                    PipelineErrorType(stage_name))
    IN IF cost > 0 THEN RecordCost(outcome, stage_name, cost) ELSE outcome

\* MetricsCollector.record_batch_processing on the metrics object m.
RecordBatchProcessingOn(m, success, product_count) ==
    LET counted == [m EXCEPT !.batches_processed = @ + 1,
                             !.products_processed = @ + product_count]
    IN IF success
       THEN [counted EXCEPT !.batches_successful = @ + 1,
                            !.products_successful = @ + product_count]
       ELSE RecordError([counted EXCEPT !.batches_failed = @ + 1,
                                        !.products_failed = @ + product_count],
                        "BATCH_PROCESSING")

\* MetricsCollector.record_websocket_event on the metrics object m.
RecordWebsocketEventOn(m, event_type, count) ==
    CASE event_type = "connection"   -> [m EXCEPT !.websocket_connections = @ + count]
      [] event_type = "message"      -> [m EXCEPT !.websocket_messages_sent = @ + count]
      [] event_type = "subscription" -> [m EXCEPT !.websocket_subscriptions = @ + count]
      [] OTHER -> m

HealthStatusInclusive(m) ==
    LET total == Max(m.total_requests, 1) IN
    IF m.failed_requests * 100 <= HealthyBelow * total THEN "healthy"
    ELSE IF m.failed_requests * 100 <= DegradedBelow * total THEN "degraded"
    ELSE "unhealthy"

\* Metrics.get_health_status: the status word. The error rate is
\* failed_requests / max(total_requests, 1) * 100.
HealthStatus(m) ==
    LET total == Max(m.total_requests, 1) IN
    IF m.failed_requests * 100 < HealthyBelow * total THEN "healthy"
    ELSE IF m.failed_requests * 100 < DegradedBelow * total THEN "degraded"
    ELSE "unhealthy"

\* MetricsCollector.get_metrics_summary: the request counters, the latency
\* window length, the error counts, the cost total and the health status it
\* reports, all read from the one metrics object in one synchronous call.
GetMetricsSummary(m) ==
    [read |-> TRUE,
     total |-> m.total_requests, successful |-> m.successful_requests,
     failed |-> m.failed_requests, window |-> Len(m.request_times),
     errors |-> m.error_counts, cost |-> m.total_cost,
     health |-> HealthStatus(m)]

\* The attributes a MetricsCollector instance has. The dataclass Metrics is a
\* name of the module monitoring, not an attribute of the collector.
CollectorAttributes ==
    {"_instance", "_metrics", "metrics", "record_request", "record_pipeline_stage",
     "record_batch_processing", "record_websocket_event", "record_error",
     "get_metrics_summary"}

StatusCodes == {200, 399, 400, 500}

ResponseTimes == {1, 3}

StageInputs == {"scraping", "packaging"}

StageCosts == {0, 2}

ProductCounts == {2}

WebsocketEventTypes == {"connection", "message", "subscription", "heartbeat"}

\* count: int = 1; a caller may pass any int.
WebsocketEventCounts == {1, -1}

NoResponse == [status_code |-> 0]

\* The module is imported: _metrics = Metrics(), nothing recorded or asked.
MetricsInit ==
    /\ metrics = InitialMetrics
    /\ metrics_ops = 0
    /\ reset_response = NoResponse
    /\ summary = [read |-> FALSE]

OneMoreMetricsOp ==
    /\ metrics_ops < MaxMetricsOps
    /\ metrics_ops' = metrics_ops + 1

RecordRequest(status_code, response_time) ==
    /\ OneMoreMetricsOp
    /\ metrics' = RecordRequestOn(metrics, status_code, response_time)
    /\ UNCHANGED <<reset_response, summary, batchVars, pollVars, wsVars, waitVars, removeVars, historyVars>>

RecordPipelineStage(stage_name, success, cost) ==
    /\ OneMoreMetricsOp
    /\ metrics' = RecordPipelineStageOn(metrics, stage_name, success, cost)
    /\ UNCHANGED <<reset_response, summary, batchVars, pollVars, wsVars, waitVars, removeVars, historyVars>>

RecordBatchProcessing(success, product_count) ==
    /\ OneMoreMetricsOp
    /\ metrics' = RecordBatchProcessingOn(metrics, success, product_count)
    /\ UNCHANGED <<reset_response, summary, batchVars, pollVars, wsVars, waitVars, removeVars, historyVars>>

RecordWebsocketEvent(event_type, count) ==
    /\ OneMoreMetricsOp
    /\ metrics' = RecordWebsocketEventOn(metrics, event_type, count)
    /\ UNCHANGED <<reset_response, summary, batchVars, pollVars, wsVars, waitVars, removeVars, historyVars>>

\* GET /metrics
GetMetrics ==
    /\ OneMoreMetricsOp
    /\ summary' = GetMetricsSummary(metrics)
    /\ UNCHANGED <<metrics, reset_response, batchVars, pollVars, wsVars, waitVars, removeVars, historyVars>>

\* GET /metrics/reset: `metrics_collector._metrics = metrics_collector.Metrics()`
\* inside try; the attribute lookup metrics_collector.Metrics comes first, and
\* if it raises the handler answers 500 and nothing has been assigned.
ResetMetrics ==
    /\ OneMoreMetricsOp
    /\ IF "Metrics" \in CollectorAttributes
       THEN /\ metrics' = InitialMetrics
            /\ reset_response' = [status_code |-> 200]
       ELSE /\ UNCHANGED metrics
            /\ reset_response' = [status_code |-> 500]
    /\ UNCHANGED <<summary, batchVars, pollVars, wsVars, waitVars, removeVars, historyVars>>

NextMetrics ==
    \/ \E code \in StatusCodes, t \in ResponseTimes : RecordRequest(code, t)
    \/ \E s \in StageInputs, ok \in BOOLEAN, cost \in StageCosts :
          RecordPipelineStage(s, ok, cost)
    \/ \E ok \in BOOLEAN, n \in ProductCounts : RecordBatchProcessing(ok, n)
    \/ \E ev \in WebsocketEventTypes, n \in WebsocketEventCounts :
          RecordWebsocketEvent(ev, n)
    \/ GetMetrics
    \/ ResetMetrics

\* m after n more record_request calls with the given status code.
RECURSIVE RecordRequests(_, _, _)
RecordRequests(m, status_code, n) ==
    IF n = 0 THEN m
    ELSE RecordRequests(RecordRequestOn(m, status_code, 1), status_code, n - 1)

\* The metrics object after `good` requests answered 200 and `bad` requests
\* answered 500 have been recorded.
SnapshotAfter(good, bad) ==
    RecordRequests(RecordRequests(InitialMetrics, 200, good), 500, bad)

\* Some requests have been recorded, nothing has been asked yet.
HealthInit ==
    /\ metrics \in UNION {{SnapshotAfter(t - f, f) : f \in 0..t} :
                            t \in 0..MaxHealthRequests}
    /\ metrics_ops = 0
    /\ reset_response = NoResponse
    /\ summary = [read |-> FALSE]

NextHealth == GetMetrics

\* The metrics object after the requests with the response times `times`
\* (at least PercentileMinLen and at most RequestTimesMaxLen of them) have
\* been recorded, all answered 200.
WindowSnapshot(times) ==
    [InitialMetrics EXCEPT
        !.total_requests = Len(times),
        !.successful_requests = Len(times),
        !.request_times = times,
        !.average_response_time = [sum |-> SeqSum(times), len |-> Len(times)],
        !.p95_response_time = Percentile(times, 95),
        !.p99_response_time = Percentile(times, 99)]

\* Response times 1, 3, 1, 3, ... of n requests.
AlternatingTimes(n) == [i \in 1..n |-> IF i % 2 = 1 THEN 1 ELSE 3]

\* The latency window is full or almost full.
WindowInit ==
    /\ metrics \in {WindowSnapshot(AlternatingTimes(RequestTimesMaxLen - room)) :
                       room \in 0..WindowRoom}
    /\ metrics_ops = 0
    /\ reset_response = NoResponse
    /\ summary = [read |-> FALSE]

\* The status codes of the requests recorded into the nearly full window.
WindowStatusCodes == {200, 500}

NextWindow ==
    \E code \in WindowStatusCodes, t \in ResponseTimes : RecordRequest(code, t)

\* ------------------------------------------------------------------------
\* MeshyService.wait_for_completion and get_task_status (services/meshy.py)
\* ------------------------------------------------------------------------
TerminalWithoutCanceled == {"SUCCEEDED", "FAILED"}

\* The statuses on which wait_for_completion returns.
TerminalTaskStatuses == {"SUCCEEDED", "FAILED", "CANCELED"}

\* status.get("status", "UNKNOWN")
CurrentStatus(status) == IF status.status = "missing" THEN "UNKNOWN" ELSE status.status

\* What the request of get_task_status can do: answer 200 with a payload,
\* answer another status code, or raise a RequestException.
TaskOutcomes ==
    {[kind |-> "ok", status |-> st] :
        st \in {"PENDING", "IN_PROGRESS", "SUCCEEDED", "FAILED", "CANCELED", "missing"}}
    \cup {[kind |-> "http_error"], [kind |-> "raise"]}

\* delay_seconds: time.sleep raises ValueError on a negative length.
DelayChoices == {-1, 0, 10}

NoWaitResult == [kind |-> "none"]

\* wait_for_completion has been called and has not run yet.
WaitInit ==
    /\ wait_args \in [max_attempts : 0..MaxAttempts, delay_seconds : DelayChoices]
    /\ wait_pc = "called"
    /\ attempt = 0
    /\ wait_sleeps = 0
    /\ wait_history = <<>>
    /\ wait_result = NoWaitResult

\* No wait_for_completion call is running.
WaitIdle ==
    /\ wait_args = [max_attempts |-> 0, delay_seconds |-> 0]
    /\ wait_pc = "idle"
    /\ attempt = 0
    /\ wait_sleeps = 0
    /\ wait_history = <<>>
    /\ wait_result = NoWaitResult

DidNotComplete == [kind |-> "exception", msg |-> "did not complete"]

\* The function runs up to its first get_task_status request; with an empty
\* range it falls through to the final raise.
WaitEnter ==
    /\ wait_pc = "called"
    /\ IF attempt < wait_args.max_attempts
       THEN wait_pc' = "checking" /\ UNCHANGED wait_result
       ELSE wait_pc' = "raised" /\ wait_result' = DidNotComplete
    /\ UNCHANGED <<wait_args, attempt, wait_sleeps, wait_history>>
    /\ UNCHANGED <<batchVars, pollVars, wsVars, metricsVars, removeVars, historyVars>>

\* get_task_status answers or raises, and the loop body runs on to the
\* return, to the raise, or into time.sleep.
WaitCheck(outcome) ==
    /\ wait_pc = "checking"
    /\ IF outcome.kind # "ok"
       THEN \* get_task_status raises, and so does wait_for_completion
            /\ wait_history' = Append(wait_history, "raised")
            /\ wait_pc' = "raised"
            /\ wait_result' = [kind |-> "exception", msg |-> "status check failed"]
            /\ UNCHANGED attempt
       ELSE /\ wait_history' = Append(wait_history, CurrentStatus(outcome))
            /\ IF CurrentStatus(outcome) \in TerminalTaskStatuses
               THEN /\ wait_pc' = "returned"
                    /\ wait_result' = [kind |-> "status", status |-> CurrentStatus(outcome)]
                    /\ UNCHANGED attempt
               ELSE IF attempt < wait_args.max_attempts - 1
               THEN IF wait_args.delay_seconds < 0
                    THEN /\ wait_pc' = "raised"
                         /\ wait_result' = [kind |-> "exception",
                                            msg |-> "sleep length must be non-negative"]
                         /\ UNCHANGED attempt
                    ELSE /\ wait_pc' = "sleeping"
                         /\ UNCHANGED <<wait_result, attempt>>
               ELSE \* last attempt: no sleep, the loop ends, the final raise
                    /\ wait_pc' = "raised"
                    /\ wait_result' = DidNotComplete
                    /\ attempt' = attempt + 1
    /\ UNCHANGED <<wait_args, wait_sleeps>>
    /\ UNCHANGED <<batchVars, pollVars, wsVars, metricsVars, removeVars, historyVars>>

\* time.sleep(delay_seconds) returns and the next iteration starts.
WaitWake ==
    /\ wait_pc = "sleeping"
    /\ wait_pc' = "checking"
    /\ attempt' = attempt + 1
    /\ wait_sleeps' = wait_sleeps + 1
    /\ UNCHANGED <<wait_args, wait_history, wait_result>>
    /\ UNCHANGED <<batchVars, pollVars, wsVars, metricsVars, removeVars, historyVars>>

NextWait ==
    \/ WaitEnter
    \/ \E outcome \in TaskOutcomes : WaitCheck(outcome)
    \/ WaitWake

\* ------------------------------------------------------------------------
\* remove_backgrounds (api/routes.py)
\* ------------------------------------------------------------------------
\* The 'background_removal' product updates.
StartEvent == [progress |-> 0, status |-> "processing"]

\* int((i + 1) / len(request.image_urls) * 100)
ProgressEvent(i, image_count) ==
    [progress |-> ((i + 1) * 100) \div image_count, status |-> "processing"]

FinalEvent(successful_count) ==
    [progress |-> 100, status |-> IF successful_count > 0 THEN "completed" ELSE "failed"]

\* What bg_manager.process_image gives for one image: a success dict, a
\* failure dict, or an exception.
ImageOutcomes == {"success", "failure", "raise"}

\* The request has arrived.
RemoveInit ==
    /\ rb_request \in [image_count : 0..MaxRequestImages, existing_processed : BOOLEAN]
    /\ rb_pc = "called"
    /\ rb_i = 0
    /\ rb_successful = 0
    /\ rb_processed = <<>>
    /\ rb_events = <<>>

\* No remove_backgrounds request is running.
RemoveIdle ==
    /\ rb_request = [image_count |-> 0, existing_processed |-> FALSE]
    /\ rb_pc = "idle"
    /\ rb_i = 0
    /\ rb_successful = 0
    /\ rb_processed = <<>>
    /\ rb_events = <<>>

\* The product is looked up (or created), and the start update is published;
\* a database error goes to the outer except, which raises HTTP 500.
RbStart(db_raises) ==
    /\ rb_pc = "called"
    /\ IF db_raises
       THEN rb_pc' = "raised_500" /\ UNCHANGED rb_events
       ELSE rb_pc' = "started" /\ rb_events' = Append(rb_events, StartEvent)
    /\ UNCHANGED <<rb_request, rb_i, rb_successful, rb_processed>>
    /\ UNCHANGED <<batchVars, pollVars, wsVars, metricsVars, waitVars, historyVars>>

\* After the loop: the ProcessingStage row is committed and the completion
\* update is published; a database error raises HTTP 500 before the update.
RbFinish(successful_count, db_raises) ==
    IF db_raises
    THEN rb_pc' = "raised_500" /\ UNCHANGED rb_events
    ELSE rb_pc' = "final_sent" /\ rb_events' = Append(rb_events, FinalEvent(successful_count))

\* The start update has been sent: stored processed images are returned as
\* they are; otherwise the loop starts, or ends at once without images.
RbAfterStart(db_raises) ==
    /\ rb_pc = "started"
    /\ IF db_raises
       THEN rb_pc' = "raised_500" /\ UNCHANGED rb_events
       ELSE IF rb_request.existing_processed
       THEN rb_pc' = "returned" /\ UNCHANGED rb_events
       ELSE IF rb_request.image_count = 0
       THEN \E stage_raises \in BOOLEAN : RbFinish(0, stage_raises)
       ELSE rb_pc' = "processing" /\ UNCHANGED rb_events
    /\ UNCHANGED <<rb_request, rb_i, rb_successful, rb_processed>>
    /\ UNCHANGED <<batchVars, pollVars, wsVars, metricsVars, waitVars, historyVars>>

\* process_image has answered for image rb_i. A success is stored and a
\* progress update is published; a failure, an exception of process_image
\* or of the database commit is kept as a failed entry by the inner except.
RbImageDone(outcome, commit_raises) ==
    /\ rb_pc = "processing"
    /\ IF outcome = "success" /\ ~commit_raises
       THEN /\ rb_successful' = rb_successful + 1
            /\ rb_processed' = Append(rb_processed, "processed")
            /\ rb_events' = Append(rb_events, ProgressEvent(rb_i, rb_request.image_count))
            /\ rb_pc' = "progress_sent"
            /\ UNCHANGED rb_i
       ELSE /\ rb_i' = rb_i + 1
            /\ rb_processed' = Append(rb_processed, "error")
            /\ UNCHANGED rb_successful
            /\ IF rb_i + 1 < rb_request.image_count
               THEN UNCHANGED <<rb_pc, rb_events>>
               ELSE \E db_raises \in BOOLEAN : RbFinish(rb_successful, db_raises)
    /\ UNCHANGED rb_request
    /\ UNCHANGED <<batchVars, pollVars, wsVars, metricsVars, waitVars, historyVars>>

\* The progress update has been sent: next image, or the end of the loop.
RbNext ==
    /\ rb_pc = "progress_sent"
    /\ rb_i' = rb_i + 1
    /\ IF rb_i + 1 < rb_request.image_count
       THEN rb_pc' = "processing" /\ UNCHANGED rb_events
       ELSE \E db_raises \in BOOLEAN : RbFinish(rb_successful, db_raises)
    /\ UNCHANGED <<rb_request, rb_successful, rb_processed>>
    /\ UNCHANGED <<batchVars, pollVars, wsVars, metricsVars, waitVars, historyVars>>

\* The completion update has been sent: the response is returned.
RbReturn ==
    /\ rb_pc = "final_sent"
    /\ rb_pc' = "returned"
    /\ UNCHANGED <<rb_request, rb_i, rb_successful, rb_processed, rb_events>>
    /\ UNCHANGED <<batchVars, pollVars, wsVars, metricsVars, waitVars, historyVars>>

NextRemove ==
    \/ \E db_raises \in BOOLEAN : RbStart(db_raises)
    \/ \E db_raises \in BOOLEAN : RbAfterStart(db_raises)
    \/ \E outcome \in ImageOutcomes, commit_raises \in BOOLEAN :
          RbImageDone(outcome, commit_raises)
    \/ RbNext
    \/ RbReturn

\* ------------------------------------------------------------------------
\* Specifications: one per component, the other components at rest
\* ------------------------------------------------------------------------
InitBatchOnly == BatchInit /\ PollIdle /\ WsIdle /\ MetricsInit /\ WaitIdle /\ RemoveIdle /\ NoHistory

SpecBatch == InitBatchOnly /\ [][NextBatch]_vars

InitPollerOnly == PollInit /\ BatchIdle /\ WsIdle /\ MetricsInit /\ WaitIdle /\ RemoveIdle /\ NoHistory

SpecPoller == InitPollerOnly /\ [][NextPoller]_vars

InitWSOnly == WsInit /\ BatchIdle /\ PollIdle /\ MetricsInit /\ WaitIdle /\ RemoveIdle /\ NoHistory

SpecWS == InitWSOnly /\ [][NextWS]_vars

InitMetricsOnly == MetricsInit /\ BatchIdle /\ PollIdle /\ WsIdle /\ WaitIdle /\ RemoveIdle /\ NoHistory

SpecMetrics == InitMetricsOnly /\ [][NextMetrics]_vars

InitHealthOnly == HealthInit /\ BatchIdle /\ PollIdle /\ WsIdle /\ WaitIdle /\ RemoveIdle /\ NoHistory

SpecHealth == InitHealthOnly /\ [][NextHealth]_vars

InitWindowOnly == WindowInit /\ BatchIdle /\ PollIdle /\ WsIdle /\ WaitIdle /\ RemoveIdle /\ NoHistory

SpecWindow == InitWindowOnly /\ [][NextWindow]_vars

InitWaitOnly == WaitInit /\ BatchIdle /\ PollIdle /\ WsIdle /\ MetricsInit /\ RemoveIdle /\ NoHistory

SpecWait == InitWaitOnly /\ [][NextWait]_vars

InitRemoveOnly == RemoveInit /\ BatchIdle /\ PollIdle /\ WsIdle /\ MetricsInit /\ WaitIdle /\ NoHistory

SpecRemove == InitRemoveOnly /\ [][NextRemove]_vars

InitKindsOnly == WsInit /\ BatchIdle /\ PollIdle /\ MetricsInit /\ WaitIdle /\ RemoveIdle /\ NoHistory

SpecKinds == InitKindsOnly /\ [][NextKinds]_vars

\* ------------------------------------------------------------------------
\* Properties of get_model_status
\* ------------------------------------------------------------------------

CompletedEvents ==
    {k \in 1..Len(poll_events) : poll_events[k].message = "3D model completed!"}

\* C4: the completion side effects (row marked completed, stage updated, one
\* '3D model completed!' update published) happen at most once per task.
C4_CompletionAtMostOnce == Cardinality(CompletedEvents) <= 1

\* C5: once the stored status is 'completed' or 'failed', no later
\* get_model_status call changes it.
C5_TerminalAbsorbing ==
    [][(model_3d.exists /\ model_3d.status \in {"completed", "failed"})
          => model_3d'.status = model_3d.status]_vars

\* C8: a call during which the status source fails transiently (the request
\* raises or is answered with a non-200 code) leaves the stored task state
\* unchanged.
C8_TransientKeepsState ==
    [][(checks' = checks + 1 /\ last_check'.source \in {"http_error", "raise"})
          => (model_3d' = model_3d /\ stage' = stage)]_vars

\* A get_model_status call that sees the vendor status FAILED for a stored
\* task on which no terminal status has been seen before.
FirstSeesFailed ==
    /\ checks' = checks + 1
    /\ model_3d.exists
    /\ model_3d.status = "processing"
    /\ last_check'.meshy_status = "FAILED"

\* C12: the call that first sees FAILED stores status 'failed' and publishes
\* a terminal event to the product's subscribers, as the call that first
\* sees SUCCEEDED does.
C12_FailedPublishes ==
    [][FirstSeesFailed =>
          /\ model_3d'.status = "failed"
          /\ Len(poll_events') = Len(poll_events) + 1
          /\ poll_events'[Len(poll_events')].status = "failed"]_vars

\* A get_model_status call on a task whose stored status is terminal.
CheckOfTerminal ==
    /\ checks' = checks + 1
    /\ model_3d.exists
    /\ model_3d.status \in {"completed", "failed"}

\* C13: a call on a task stored as terminal does not call the status source,
\* repeats no side effect and returns the stored terminal status.
C13_TerminalIsCached ==
    [][CheckOfTerminal =>
          /\ ~last_check'.called_source
          /\ model_3d' = model_3d
          /\ stage' = stage
          /\ poll_events' = poll_events
          /\ last_check'.status = model_3d.status]_vars

KnownVendorStatuses == {"SUCCEEDED", "FAILED", "PENDING", "IN_PROGRESS"}

\* C14: a vendor status outside the known set is returned as 'processing'
\* with a progress of at least the floor value.
C14_UnknownIsFloored ==
    (last_check.source # "none" /\ last_check.meshy_status \notin KnownVendorStatuses)
        => (last_check.status = "processing" /\ last_check.progress >= FloorProgress)

\* ------------------------------------------------------------------------
\* Properties of the metrics
\* ------------------------------------------------------------------------

\* C20: reset_metrics replaces the whole snapshot in one step: when it has
\* answered, every counter, the latency window, the error counts and the
\* cost totals are at their initial values.
C20_ResetRestoresInitial ==
    [][ResetMetrics => metrics' = InitialMetrics]_vars

\* The integer counters of the metrics object.
CounterFields(m) ==
    <<m.total_requests, m.successful_requests, m.failed_requests,
      m.products_processed, m.products_successful, m.products_failed,
      m.batches_processed, m.batches_successful, m.batches_failed,
      m.websocket_connections, m.websocket_messages_sent, m.websocket_subscriptions>>

\* No counter of `after` is below its value in `before`.
CountersNotBelow(before, after) ==
    /\ \A k \in 1..Len(CounterFields(before)) :
          CounterFields(before)[k] <= CounterFields(after)[k]
    /\ \A st \in StageNames : before.stage_requests[st] <= after.stage_requests[st]
    /\ DOMAIN before.error_counts \subseteq DOMAIN after.error_counts
    /\ \A k \in DOMAIN before.error_counts :
          before.error_counts[k] <= after.error_counts[k]

\* C22: no record_* call, whatever its arguments, makes a counter of the
\* metrics object decrease.
C22_CountersMonotone ==
    [][ResetMetrics \/ CountersNotBelow(metrics, metrics')]_vars

\* The window after a latency t was recorded on window w of capacity 1000:
\* t is the newest entry and, if w was full, exactly its oldest entry is gone.
RetainedWindow(w, t) ==
    IF Len(w) = 1000 THEN SubSeq(w, 2, 1000) \o <<t>> ELSE w \o <<t>>

\* v is the entry of rank int(len * q / 100) (from 0) of the window w in
\* ascending order.
IsPercentileOf(v, w, q) ==
    LET rank == (Len(w) * q) \div 100 IN
    /\ \E i \in 1..Len(w) : w[i] = v
    /\ Cardinality({i \in 1..Len(w) : w[i] < v}) <= rank
    /\ Cardinality({i \in 1..Len(w) : w[i] <= v}) > rank

\* What a record_request step with latency t leaves in the metrics object.
WindowStepOk(t) ==
    LET w == metrics'.request_times IN
    /\ w = RetainedWindow(metrics.request_times, t)
    /\ metrics'.average_response_time.len = Len(w)
    /\ metrics'.average_response_time.sum = SeqSum(w)
    /\ Len(w) >= 10 =>
          /\ IsPercentileOf(metrics'.p95_response_time, w, 95)
          /\ IsPercentileOf(metrics'.p99_response_time, w, 99)

\* C23: request_times never holds more than 1000 entries; recording a
\* latency on a full window evicts exactly the oldest entry; the average and
\* the percentiles are those of the retained window.
C23_BoundedWindow ==
    /\ [](Len(metrics.request_times) <= 1000)
    /\ [][\A t \in ResponseTimes :
            (/\ metrics'.total_requests = metrics.total_requests + 1
             /\ metrics'.request_times[Len(metrics'.request_times)] = t
             /\ \E code \in WindowStatusCodes : RecordRequest(code, t))
                => WindowStepOk(t)]_vars

\* The window is full and more requests have been recorded than it holds:
\* entries have been evicted.
C23_Witness ==
    /\ Len(metrics.request_times) = 1000
    /\ metrics.total_requests > 1000

\* The error rate failed / max(total, 1) of a summary is below pct percent.
ErrorRateBelow(s, pct) == s.failed * 100 < pct * Max(s.total, 1)

\* C21: the health status follows from the error rate alone: 'healthy' below
\* 10%, 'degraded' from 10% and below 25%, 'unhealthy' from 25%; rates of
\* 5%, 15% and 30% give healthy, degraded and unhealthy.
C21_HealthThresholds ==
    summary.read =>
        /\ ErrorRateBelow(summary, 10) => summary.health = "healthy"
        /\ (~ErrorRateBelow(summary, 10) /\ ErrorRateBelow(summary, 25))
              => summary.health = "degraded"
        /\ ~ErrorRateBelow(summary, 25) => summary.health = "unhealthy"
        /\ (summary.total = 20 /\ summary.failed = 1) => summary.health = "healthy"
        /\ (summary.total = 20 /\ summary.failed = 3) => summary.health = "degraded"
        /\ (summary.total = 20 /\ summary.failed = 6) => summary.health = "unhealthy"

\* The status has been read at an error rate of exactly 10% (2 of 20) and
\* is 'degraded'.
C21_Witness ==
    /\ summary.read
    /\ summary.total = 20
    /\ summary.failed = 2
    /\ summary.health = "degraded"

\* ------------------------------------------------------------------------
\* Properties of wait_for_completion
\* ------------------------------------------------------------------------

IsTerminalStatus(st) == st \in {"SUCCEEDED", "FAILED", "CANCELED"}

WaitDone == wait_pc \in {"returned", "raised"}

\* No status check before the last one made so far saw a terminal status or
\* raised.
OnlyLastCheckDecides ==
    \A k \in 1..(Len(wait_history) - 1) :
        ~IsTerminalStatus(wait_history[k]) /\ wait_history[k] # "raised"

\* C25: wait_for_completion terminates; it makes at most max_attempts status
\* checks; it returns the first terminal status (SUCCEEDED, FAILED or
\* CANCELED) it sees; it does not sleep after the last attempt; it raises
\* when a status check raises and when max_attempts checks saw no terminal
\* status.
C25_WaitTerminates ==
    /\ WaitDone \/ ENABLED NextWait
    /\ Len(wait_history) <= wait_args.max_attempts
    /\ OnlyLastCheckDecides
    /\ wait_sleeps <= Len(wait_history)
    /\ wait_pc = "sleeping" => Len(wait_history) < wait_args.max_attempts
    /\ wait_sleeps < Max(wait_args.max_attempts, 1)
    /\ wait_pc = "returned" =>
          /\ wait_history # <<>>
          /\ IsTerminalStatus(wait_history[Len(wait_history)])
          /\ wait_result = [kind |-> "status", status |-> wait_history[Len(wait_history)]]
    /\ (wait_history # <<>> /\ IsTerminalStatus(wait_history[Len(wait_history)]))
          => wait_pc = "returned"
    /\ (wait_history # <<>> /\ wait_history[Len(wait_history)] = "raised")
          => (wait_pc = "raised" /\ wait_result.kind = "exception")
    /\ (Len(wait_history) = wait_args.max_attempts
          /\ \A k \in 1..Len(wait_history) :
                ~IsTerminalStatus(wait_history[k]) /\ wait_history[k] # "raised")
          => (wait_pc \in {"called", "raised"}
              /\ (wait_pc = "raised" => wait_result.kind = "exception"))

\* The call returned on its last allowed attempt, after two sleeps, with the
\* terminal status of the third check.
C25_Witness ==
    /\ wait_pc = "returned"
    /\ wait_args.max_attempts = 3
    /\ Len(wait_history) = 3
    /\ wait_sleeps = 2
    /\ wait_result.status = "CANCELED"

\* The step is record_request(_, _, code, _).
RecordsRequest(code) ==
    /\ metrics'.total_requests = metrics.total_requests + 1
    /\ \E t \in ResponseTimes : RecordRequest(code, t)

\* C30: total_requests = successful_requests + failed_requests in every
\* state, and every record_request call counts the request as exactly one
\* of the two: successful for a status in 200..399, failed for any other.
C30_TotalIsSum ==
    /\ [](metrics.total_requests = metrics.successful_requests + metrics.failed_requests)
    /\ [][\A code \in StatusCodes :
            RecordsRequest(code) =>
                IF code \in 200..399
                THEN /\ metrics'.successful_requests = metrics.successful_requests + 1
                     /\ metrics'.failed_requests = metrics.failed_requests
                ELSE /\ metrics'.failed_requests = metrics.failed_requests + 1
                     /\ metrics'.successful_requests = metrics.successful_requests]_vars

\* One successful request and two failed ones, one of them answered 400,
\* have been recorded.
C30_Witness ==
    /\ metrics.total_requests = 3
    /\ metrics.successful_requests = 1
    /\ metrics.failed_requests = 2
    /\ DictGet(metrics.error_counts, "HTTP_400") = 1

\* ------------------------------------------------------------------------
\* Properties of remove_backgrounds
\* ------------------------------------------------------------------------

IsStartEvent(ev) == ev.progress = 0 /\ ev.status = "processing"

IsTerminalEvent(ev) == ev.status \in {"completed", "failed"}

\* C27: when the request has finished (response returned or HTTP 500
\* raised), every start event it published is followed by a terminal event
\* with status 'completed' or 'failed'.
C27_StartHasTerminal ==
    rb_pc \in {"returned", "raised_500"} =>
        \A k \in 1..Len(rb_events) :
            IsStartEvent(rb_events[k]) =>
                \E j \in (k + 1)..Len(rb_events) : IsTerminalEvent(rb_events[j])

\* ------------------------------------------------------------------------
\* Properties of the ConnectionManager
\* ------------------------------------------------------------------------
\* The subscribe method a connection must have called, with the id, to be
\* sent an update of this kind.
MethodFor(kind) ==
    IF kind = "batch_update" THEN "subscribe_to_batch" ELSE "subscribe_to_product"

\* The send_text of publisher p that is in flight returns: its target has
\* been sent the update.
Delivers(p) ==
    /\ pub[p].pc = "sending"
    /\ alive[pub[p].target]
    /\ PublishSend(p)

\* C28: a product update for an id is delivered only to connections that
\* called subscribe_to_product with that id, a batch update only to
\* connections that called subscribe_to_batch with it.
C28_KindsNeverCross ==
    [][\A p \in Publishers :
         (Delivers(p) /\ publish_kind[p] \in {"product_update", "batch_update"})
            => [conn |-> pub[p].target, method |-> MethodFor(publish_kind[p]),
                id |-> pub[p].entity] \in subscribe_calls]_vars


Occurrences(seq, x) == Cardinality({i \in 1..Len(seq) : seq[i] = x})

Subscribed(subs, c) == \E k \in DOMAIN subs : c \in Range(subs[k])

\* When a publish returns, every connection whose send_text raised in it is
\* in no subscriber list and not in active_connections, and it held exactly
\* one place in each list it was removed from.
PublishReturnPrunes ==
    \A p \in Publishers :
        (pub[p].pc = "sending" /\ pub'[p].pc = "idle") =>
            \A c \in pub'[p].failed :
                /\ c \notin Range(active_connections')
                /\ ~Subscribed(subscriptions', c)
                /\ \A k \in DOMAIN subscriptions :
                      Occurrences(subscriptions[k], c) <= 1

\* A publish makes no send attempt to a connection whose send_text raised in
\* the previous publish to the same entity.
NoSendToPruned ==
    \A p \in Publishers :
        pub[p].pc = "sending" => pub[p].target \notin pub[p].banned

\* C6: if c's send_text raises during a publish to e, then when the publish
\* returns c is in no subscriber list and not in active_connections, e's
\* subscriber count went down by exactly one for c, and a later publish to e
\* makes no send attempt to c.
C6_FailedSendPrunes == [][PublishReturnPrunes /\ NoSendToPruned']_vars

\* The part of C6 that is about the moment the publish returns.
C6_PrunedAtReturn == [][PublishReturnPrunes]_vars

\* C7: a publish to e attempts a send to every connection that is subscribed
\* to e and live throughout the call, whatever disconnects and subscribes
\* happen while its sends are suspended.
C7_PublishReachesAll ==
    \A p \in Publishers :
        (pub[p].pc = "idle" /\ pub[p].returned) => pub[p].missed = {}

\* No publish that has returned delivered its message twice to a connection.
NoDoubleDelivery ==
    \A p \in Publishers : (pub[p].pc = "idle" /\ pub[p].returned) => pub[p].twice = {}

\* C17: a publish that has returned has delivered its message exactly once
\* to each connection that was subscribed to the entity when it started and
\* stayed subscribed and live: to none of them twice, and to none of them
\* not at all.
C17_ExactlyOncePerSubscriber ==
    \A p \in Publishers :
        (pub[p].pc = "idle" /\ pub[p].returned) =>
            (pub[p].twice = {} /\ pub[p].missed = {})

\* The entity has no subscriber.
NoSubscribers(e) == e \notin DOMAIN subscriptions \/ subscriptions[e] = <<>>

\* C18: a publish (of any of the three kinds) to an entity without
\* subscribers returns normally at once, with no send_text in flight and no
\* failed connection, and leaves active_connections, subscriptions and the
\* connections themselves as they were.
C18_EmptyPublishIsNoOp ==
    [][\A p \in Publishers, e \in Entities, k \in PublishKinds :
          (NoSubscribers(e) /\ PublishStart(p, e, k)) =>
              /\ pub'[p].pc = "idle"
              /\ pub'[p].returned
              /\ pub'[p].failed = {}
              /\ active_connections' = active_connections
              /\ subscriptions' = subscriptions
              /\ alive' = alive
              /\ handler' = handler]_vars

\* The only publish so far went to e1, which never had a subscriber, and has
\* returned; the one frame read so far subscribed its connection to e2.
C18_Witness ==
    /\ publishes = 1
    /\ frames_read = 1
    /\ DOMAIN subscriptions = {"e2"}
    /\ active_connections # <<>>
    /\ \E p \in Publishers :
          pub[p].pc = "idle" /\ pub[p].returned /\ pub[p].entity = "e1"

\* The frames that make the handler call subscribe_to_product or
\* subscribe_to_batch.
SubscribeFrames ==
    {f \in Frames : f.type \in {"subscribe_product", "subscribe_batch"} /\ f.id # "None"}

\* C19: after a subscribe of connection c to an entity, a second subscribe of
\* c to the same entity would leave the subscriptions map as it is; a
\* subscribe of a connection that is already subscribed changes nothing; and
\* c is at most once in every subscriber list.
C19_SubscribeIdempotent ==
    [][\A c \in Conns, f \in SubscribeFrames :
          Receive(c, f) =>
              /\ Subscribe(subscriptions', c, f.id) = subscriptions'
              /\ (f.id \in DOMAIN subscriptions /\ c \in Range(subscriptions[f.id]))
                    => subscriptions' = subscriptions
              /\ \A k \in DOMAIN subscriptions' :
                    Occurrences(subscriptions'[k], c) <= 1]_vars

\* w1 alone has connected and has read two frames, the last of them a
\* subscribe that it is about to confirm, and e1 has the one subscriber w1.
C19_Witness ==
    /\ frames_read = 2
    /\ handler["w2"].pc = "new"
    /\ handler["w1"] = [pc |-> "replying", reply |-> "subscription_confirmed"]
    /\ subscriptions = [k \in {"e1"} |-> <<"w1">>]

\* C9: no key of the subscriptions map has an empty subscriber list.
C9_NoEmptySubscriberList ==
    \A k \in DOMAIN subscriptions : Len(subscriptions[k]) > 0

\* A publish found the only subscriber of its entity dead and disconnected
\* it: the entity's key is gone, while another entity keeps its subscribers.
C9_Witness ==
    \E p \in Publishers :
        /\ pub[p].pc = "idle"
        /\ pub[p].returned
        /\ pub[p].failed # {}
        /\ pub[p].entity \notin DOMAIN subscriptions
        /\ DOMAIN subscriptions # {}

\* The control messages the handler recognizes.
Recognized(frame) ==
    \/ frame.type \in {"subscribe_product", "subscribe_batch"} /\ frame.id # "None"
    \/ frame.type = "ping"

UnrecognizedFrames == {f \in Frames : ~Recognized(f)}

\* C15: every inbound frame that is not a recognized control message is
\* answered with a reply of type 'error' on the connection it came from.
C15_UnrecognizedGetsError ==
    [][\A c \in Conns, f \in UnrecognizedFrames :
          Receive(c, f) =>
              (handler'[c].pc = "replying" /\ handler'[c].reply = "error")]_vars

\* Frames that are malformed or of an unknown type.
MalformedFrames == {f \in Frames : f.type \in {"unknown", "not_json", "not_an_object"}}

\* C16: after a malformed or unrecognized frame the connection is still in
\* active_connections, the subscriptions are unchanged and the handler goes
\* on with the connection (it sends its reply or reads the next frame).
C16_MalformedKeepsOpen ==
    [][\A c \in Conns, f \in MalformedFrames :
          (c \in Range(active_connections) /\ Receive(c, f)) =>
              /\ c \in Range(active_connections')
              /\ subscriptions' = subscriptions
              /\ handler'[c].pc \in {"replying", "receiving"}]_vars

PingFrame == [type |-> "ping", id |-> "None"]

\* C24: a ping frame makes the handler send one pong on the connection the
\* ping came from and nothing else; neither reading the ping nor sending the
\* pong to the open connection changes active_connections or subscriptions.
C24_PingPong ==
    [][\A c \in Conns :
          /\ Receive(c, PingFrame) =>
                /\ handler'[c] = [pc |-> "replying", reply |-> "pong"]
                /\ \A d \in Conns \ {c} : handler'[d] = handler[d]
                /\ active_connections' = active_connections
                /\ subscriptions' = subscriptions
          /\ (handler[c] = [pc |-> "replying", reply |-> "pong"] /\ alive[c] /\ Reply(c)) =>
                /\ handler'[c] = [pc |-> "receiving", reply |-> "none"]
                /\ active_connections' = active_connections
                /\ subscriptions' = subscriptions]_vars

\* A connection that holds a subscription and is open has read a ping and
\* is sending its pong.
C24_Witness ==
    \E c \in Conns :
        /\ handler[c] = [pc |-> "replying", reply |-> "pong"]
        /\ alive[c]
        /\ c \in Range(active_connections)
        /\ Subscribed(subscriptions, c)

\* C26: every connection in a subscriber list is in active_connections.
C26_SubscribersAreActive ==
    \A k \in DOMAIN subscriptions :
        Range(subscriptions[k]) \subseteq Range(active_connections)

\* ------------------------------------------------------------------------
\* Properties of process_batch
\* ------------------------------------------------------------------------

\* C1: with max_concurrent = k >= 1, the number of units that are inside
\* process_image at the same time never exceeds k.
C1_ConcurrencyBound ==
    max_concurrent >= 1 => Cardinality(InProcessImage) <= max_concurrent

\* The ceiling is reached while another unit is kept waiting for a slot.
C1_Witness ==
    /\ max_concurrent >= 1
    /\ Cardinality(InProcessImage) = max_concurrent
    /\ \E i \in Units : upc[i] = "pending"

\* The outcome of unit i as process_batch has to report it.
UnitOutcome(i) ==
    IF task_result[i].kind = "exception"
    THEN FailureResult(image_urls[i], task_result[i].msg, "none")
    ELSE task_result[i]

\* C2: process_batch returns exactly len(image_urls) results and the result
\* at position i is the outcome of image_urls[i], whatever the order in which
\* the units completed.
C2_OrderPreserved ==
    batch_pc = "returned" =>
        /\ Len(processed_results) = Len(image_urls)
        /\ \A i \in Units :
              /\ processed_results[i].original_url = image_urls[i]
              /\ processed_results[i] = UnitOutcome(i)

\* A batch has returned in which a later-submitted unit finished before an
\* earlier one, the two having different URLs and different outcomes.
C2_Witness ==
    /\ batch_pc = "returned"
    /\ \E a, b \in 1..Len(completion_order) :
          /\ a < b
          /\ completion_order[a] > completion_order[b]
          /\ image_urls[completion_order[a]] # image_urls[completion_order[b]]
          /\ processed_results[completion_order[a]].success
                # processed_results[completion_order[b]].success

UnitFailed(i) ==
    \/ task_result[i].kind = "exception"
    \/ task_result[i].kind = "dict" /\ ~task_result[i].success

ErrorDetail(i) ==
    IF task_result[i].kind = "exception" THEN task_result[i].msg ELSE task_result[i].error

\* C3: a unit that fails or raises yields success=False with the error detail
\* at its own position; every other unit still runs to completion and reports
\* its real outcome; process_batch itself never raises.
C3_PartialFailure ==
    /\ batch_pc # "raised"
    /\ batch_pc = "returned" =>
          /\ Len(processed_results) = Len(image_urls)
          /\ \A i \in Units :
                /\ upc[i] = "done"
                /\ UnitFailed(i) =>
                      /\ processed_results[i].success = FALSE
                      /\ processed_results[i].error = ErrorDetail(i)
                      /\ processed_results[i].original_url = image_urls[i]
                /\ ~UnitFailed(i) =>
                      /\ processed_results[i].success = TRUE
                      /\ processed_results[i] = task_result[i]

\* A batch of three has returned in which exactly the second unit failed (its
\* provider call returned a failure) and the two others succeeded.
C3_Witness ==
    /\ batch_pc = "returned"
    /\ Len(image_urls) = 3
    /\ ~processed_results[2].success
    /\ processed_results[2].error = "provider_error"
    /\ processed_results[1].success
    /\ processed_results[3].success

\* The steps unit i takes on the skip path: _is_already_transparent answers
\* True, and _create_skip_result returns.
SkipStep(i) ==
    \/ upc[i] = "downloading" /\ upc'[i] = "skip_saving"
    \/ upc[i] = "skip_saving" /\ upc'[i] = "done"

\* C11: a unit whose image is already transparent yields success=True with
\* cost 0 and processing_time 0 (provider 'skip', skipped=True), and no step
\* of that unit changes the number of provider.remove_background calls.
C11_SkipPath ==
    [][\A i \in Units :
          SkipStep(i) =>
              /\ provider_calls' = provider_calls
              /\ upc'[i] = "done" =>
                    /\ task_result'[i].kind = "dict"
                    /\ task_result'[i].success = TRUE
                    /\ task_result'[i].cost = 0
                    /\ task_result'[i].processing_time = 0
                    /\ task_result'[i].provider = "skip"
                    /\ task_result'[i].skipped = TRUE
                    /\ task_result'[i].original_url = image_urls[i]]_vars

\* A batch has returned with a skipped unit at its position, while another
\* unit of the same batch did go through the provider.
C11_Witness ==
    /\ batch_pc = "returned"
    /\ provider_calls >= 1
    /\ \E i \in Units :
          /\ processed_results[i].success
          /\ processed_results[i].provider = "skip"

\* C29: the free slots and the units holding one always add up to
\* max_concurrent, so a unit that leaves (with a result, a failure dict or an
\* exception) has given its slot back; once process_batch has returned, no
\* unit is in flight and all max_concurrent slots are free.
C29_SlotsReleased ==
    /\ sem_value + Cardinality(HoldingSlot) = max_concurrent
    /\ batch_pc # "gathering" =>
          /\ \A i \in Units : upc[i] = "done"
          /\ HoldingSlot = {}
          /\ sem_value = max_concurrent

\* A batch of more units than slots has returned; one unit raised inside the
\* slot, one returned a failure dict and one succeeded.
C29_Witness ==
    /\ batch_pc = "returned"
    /\ Len(image_urls) > max_concurrent
    /\ \E a, b, c \in Units :
          /\ task_result[a].kind = "exception"
          /\ task_result[b].kind = "dict" /\ ~task_result[b].success
          /\ task_result[c].kind = "dict" /\ task_result[c].success

\* C10: for every max_concurrent (0 included) process_batch eventually
\* returns a full-length result list: as long as it has not returned, some
\* step of the batch can still be taken.
C10_BatchTerminates ==
    \/ batch_pc = "returned" /\ Len(processed_results) = Len(image_urls)
    \/ ENABLED NextBatch

====
